---- MODULE Spec2Model ----
(***************************************************************************)
(* Interval timer (src/app.js, first implementation, lines 1-463): the     *)
(* workout parser, the flattener and the timer engine with its two         *)
(* browser timers (the recurring tick and the one-shot pre-end cue).       *)
(*                                                                         *)
(* Text is a sequence of one-character strings.  JavaScript indices are    *)
(* kept 0-based (index), sequences here are 1-based (timeline[index + 1]). *)
(* Time is counted in whole seconds: every timer of the engine is created  *)
(* in the same handler as the tick it runs beside, so the two stay on one  *)
(* grid; a timer record carries the seconds left until it is due.          *)
(***************************************************************************)
EXTENDS Integers, Sequences, FiniteSets, TLC

\* ------------------------------------------------------------------------
\* JavaScript values
\* ------------------------------------------------------------------------
\* null (a timer handle that holds nothing)
Null == 0
\* undefined in a numeric field (a property the object does not have)
Undefined == -1
\* NaN, the result of arithmetic on undefined
NaN == -2
\* undefined in the name field; no parsed name equals it (names are sequences
\* of one-character strings)
UndefinedName == << "undefined" >>

\* ------------------------------------------------------------------------
\* Bounds of the model
\* ------------------------------------------------------------------------
\* Start clicks whose deferred dispatch has not run yet
MaxPending == 2
\* ticks of one run (a step of duration NaN never ends)
MaxElapsed == 9
\* the cue counter of a step saturates here
MaxCues == 3
\* fragments of an input text of the parser
MaxFrags == 4
\* nodes of an input plan of the flattener
MaxPlanLen == 2
\* repeat count of an input Set
MaxRepeat == 2
\* steps of an input Set
MaxSteps == 2

\* ------------------------------------------------------------------------
\* Characters and the regular-expression primitives
\* ------------------------------------------------------------------------
Digits == << "0", "1", "2", "3", "4", "5", "6", "7", "8", "9" >>

IsDigit(c) == \E d \in 1..10 : Digits[d] = c

DigitVal(c) == (CHOOSE d \in 1..10 : Digits[d] = c) - 1

\* \s and trim(): the whitespace characters a line can hold
IsSpace(c) == c \in {" ", "\t"}

\* the i flag, on the letters the patterns name
Lower(c) ==
  CASE c = "M" -> "m" [] c = "I" -> "i" [] c = "N" -> "n" [] c = "S" -> "s"
    [] c = "E" -> "e" [] c = "C" -> "c" [] c = "X" -> "x" [] OTHER -> c

RECURSIVE TrimLeft(_)
TrimLeft(s) == IF s # <<>> /\ IsSpace(Head(s)) THEN TrimLeft(Tail(s)) ELSE s

RECURSIVE TrimRight(_)
TrimRight(s) ==
  IF s # <<>> /\ IsSpace(s[Len(s)]) THEN TrimRight(SubSeq(s, 1, Len(s) - 1)) ELSE s

\* String.prototype.trim
Trim(s) == TrimRight(TrimLeft(s))

\* String.prototype.split on a one-character separator
RECURSIVE Split(_, _)
Split(s, sep) ==
  IF \E i \in 1..Len(s) : s[i] = sep
  THEN LET i == CHOOSE k \in 1..Len(s) : s[k] = sep /\ \A j \in 1..(k - 1) : s[j] # sep
       IN  << SubSeq(s, 1, i - 1) >> \o Split(SubSeq(s, i + 1, Len(s)), sep)
  ELSE << s >>

\* \d* from position i, greedy: the first position after the run
RECURSIVE DigitsEnd(_, _)
DigitsEnd(s, i) == IF i <= Len(s) /\ IsDigit(s[i]) THEN DigitsEnd(s, i + 1) ELSE i

\* \s* from position i, greedy: the first position after the run
RECURSIVE SpacesEnd(_, _)
SpacesEnd(s, i) == IF i <= Len(s) /\ IsSpace(s[i]) THEN SpacesEnd(s, i + 1) ELSE i

\* the literal w at position i, case-insensitive
HasAt(s, i, w) ==
  /\ i >= 1
  /\ i + Len(w) - 1 <= Len(s)
  /\ \A k \in 1..Len(w) : Lower(s[i + k - 1]) = w[k]

\* parseInt of the digits s[i .. j-1]
RECURSIVE ParseInt(_, _, _)
ParseInt(s, i, j) == IF j <= i THEN 0 ELSE ParseInt(s, i, j - 1) * 10 + DigitVal(s[j - 1])

\* ------------------------------------------------------------------------
\* Parsing
\* ------------------------------------------------------------------------
MinUnits == << << "m" >>, << "m", "i", "n" >> >>

SecUnits == << << "s" >>, << "s", "e", "c" >> >>

\* (?:m|min|s|sec), in the order the alternatives are tried
Units == MinUnits \o SecUnits

\* /(\d+)\s*(u1|u2)/i matches with its first digit at position i
TokenAt(s, i, units) ==
  /\ i <= Len(s)
  /\ IsDigit(s[i])
  /\ \E u \in 1..Len(units) : HasAt(s, SpacesEnd(s, DigitsEnd(s, i)), units[u])

\* str.match(/(\d+)\s*(u1|u2)/i) then parseInt of the match: the number of the
\* leftmost match, 0 when nothing matches (total is left alone)
TokenValue(s, units) ==
  IF \E i \in 1..Len(s) : TokenAt(s, i, units)
  THEN LET i == CHOOSE k \in 1..Len(s) :
                  TokenAt(s, k, units) /\ \A j \in 1..(k - 1) : ~TokenAt(s, j, units)
       IN  ParseInt(s, i, DigitsEnd(s, i))
  ELSE 0

parseDuration(str) == TokenValue(str, MinUnits) * 60 + TokenValue(str, SecUnits)

\* The last position of group 1 of
\*   /^(\d+\s*(?:m|min|s|sec)(?:\s*\d*\s*(?:s|sec))?)(?:\s+(.*))?$/i
\* when the unit is alternative u and the optional seconds part ends with
\* alternative v of (?:s|sec) (v = 0: the part is not taken); 0 when that
\* path does not match.
Group1End(s, u, v) ==
  LET d  == DigitsEnd(s, 1)
      sp == SpacesEnd(s, d)
  IN  IF d = 1 \/ ~HasAt(s, sp, Units[u]) THEN 0
      ELSE LET q == sp + Len(Units[u])
               p == SpacesEnd(s, DigitsEnd(s, SpacesEnd(s, q)))
           IN  IF v = 0 THEN q - 1
               ELSE IF HasAt(s, p, SecUnits[v]) THEN p + Len(SecUnits[v]) - 1
               ELSE 0

\* (?:\s+(.*))?$ after group 1 ending at e
TailOk(s, e) == e = Len(s) \/ IsSpace(s[e + 1])

\* the paths of the backtracking matcher in the order it tries them: the unit
\* alternatives in order, and for each the greedy optional part (s, then sec)
\* before the path without it
PathUnit(k) == ((k - 1) \div 3) + 1

PathSec(k) == << 1, 2, 0 >>[((k - 1) % 3) + 1]

PathOk(s, k) ==
  /\ Group1End(s, PathUnit(k), PathSec(k)) > 0
  /\ TailOk(s, Group1End(s, PathUnit(k), PathSec(k)))

\* the end of group 1 of the match the engine returns, 0 when there is none
ActivityMatch(s) ==
  IF \E k \in 1..12 : PathOk(s, k)
  THEN LET k == CHOOSE c \in 1..12 : PathOk(s, c) /\ \A j \in 1..(c - 1) : ~PathOk(s, j)
       IN  Group1End(s, PathUnit(k), PathSec(k))
  ELSE 0

\* null as parseActivity returns it: an object spread of it adds no property,
\* so name and duration stay undefined
NullActivity == [name |-> UndefinedName, duration |-> Undefined]

parseActivity(text) ==
  LET s == Trim(text)
      e == ActivityMatch(s)
  IN  IF e = 0 THEN NullActivity
      ELSE [name     |-> IF e = Len(s) THEN <<>>
                         ELSE Trim(SubSeq(s, SpacesEnd(s, e + 1), Len(s))),
            duration |-> parseDuration(SubSeq(s, 1, e))]

\* line.match(/^(\d+)x\s*\((.+)\)$/i): the position of the opening bracket,
\* 0 when the line is no set line
SetMatch(line) ==
  LET d  == DigitsEnd(line, 1)
      sp == SpacesEnd(line, d + 1)
  IN  IF /\ d > 1
         /\ HasAt(line, d, << "x" >>)
         /\ HasAt(line, sp, << "(" >>)
         /\ Len(line) >= sp + 2
         /\ line[Len(line)] = ")"
      THEN sp
      ELSE 0

\* .map(l => l.trim())
TrimAll(ls) == [i \in 1..Len(ls) |-> Trim(ls[i])]

\* .map(s => parseActivity(s))
ParseItems(items) == [i \in 1..Len(items) |-> parseActivity(items[i])]

\* Boolean(x) of filter(Boolean): a string is truthy when not empty
NonEmpty(s) == s # <<>>

\* Boolean(x) of filter(Boolean): an object is truthy, null is not
NotNull(a) == a # NullActivity

\* the node of one line (the callback of the second map)
ParseLine(line) ==
  LET open == SetMatch(line)
  IN  IF open = 0
      THEN [type     |-> "activity",
            name     |-> parseActivity(line).name,
            duration |-> parseActivity(line).duration,
            repeat   |-> Undefined,
            steps    |-> <<>>]
      ELSE [type     |-> "set",
            name     |-> UndefinedName,
            duration |-> Undefined,
            repeat   |-> ParseInt(line, 1, DigitsEnd(line, 1)),
            steps    |-> SelectSeq(
                           ParseItems(Split(SubSeq(line, open + 1, Len(line) - 1), ",")),
                           NotNull)]

\* Boolean(x) of the last filter(Boolean): every node is an object
IsObject(node) == TRUE

\* .map(line => ...) over the non-blank lines
ParseLines(ls) == [i \in 1..Len(ls) |-> ParseLine(ls[i])]

parseWorkout(text) ==
  SelectSeq(ParseLines(SelectSeq(TrimAll(Split(text, "\n")), NonEmpty)), IsObject)

\* ------------------------------------------------------------------------
\* Flatten workout with interval metadata
\* ------------------------------------------------------------------------
\* { ...block } of an activity block: no interval, no intervalTotal
ActivityStep(block) ==
  [name |-> block.name, duration |-> block.duration,
   interval |-> Undefined, intervalTotal |-> Undefined]

\* { ...step, interval: r, intervalTotal: block.repeat }
SetStep(step, r, total) ==
  [name |-> step.name, duration |-> step.duration,
   interval |-> r, intervalTotal |-> total]

\* block.steps.forEach(step => timeline.push(...)) from step i on
RECURSIVE PushSteps(_, _, _, _)
PushSteps(tl, block, r, i) ==
  IF i > Len(block.steps) THEN tl
  ELSE PushSteps(Append(tl, SetStep(block.steps[i], r, block.repeat)), block, r, i + 1)

\* for (let r = ...; r <= block.repeat; r++) from repetition r on
RECURSIVE PushReps(_, _, _)
PushReps(tl, block, r) ==
  IF r > block.repeat THEN tl
  ELSE PushReps(PushSteps(tl, block, r, 1), block, r + 1)

\* a step-major expansion: every repetition of a step before the next step
RECURSIVE StepMajorFrom(_, _, _)
StepMajorFrom(tl, block, i) ==
  IF i > Len(block.steps) THEN tl
  ELSE StepMajorFrom(
         tl \o [r \in 1..block.repeat |-> SetStep(block.steps[i], r, block.repeat)],
         block, i + 1)

PushBlockStepMajor(tl, block) ==
  LET t1 == IF block.type = "activity" THEN Append(tl, ActivityStep(block)) ELSE tl
  IN  IF block.type = "set" THEN StepMajorFrom(t1, block, 1) ELSE t1

\* the callback of parsed.forEach
PushBlock(tl, block) ==
  LET t1 == IF block.type = "activity" THEN Append(tl, ActivityStep(block)) ELSE tl
  IN  IF block.type = "set" THEN PushReps(t1, block, 1) ELSE t1

RECURSIVE FlattenFrom(_, _, _)
FlattenFrom(tl, parsed, i) ==
  IF i > Len(parsed) THEN tl
  ELSE FlattenFrom(PushBlock(tl, parsed[i]), parsed, i + 1)

flattenWorkout(parsed) == FlattenFrom(<<>>, parsed, 1)

\* ------------------------------------------------------------------------
\* Timer state
\* ------------------------------------------------------------------------
VARIABLES
  timeline,         \* let timeline = []
  index,            \* let index = 0
  remaining,        \* let remaining = 0
  elapsed,          \* let elapsed = 0
  intervalId,       \* let intervalId = null
  sampleTimeoutId,  \* let sampleTimeoutId = null
  isRunning,        \* let isRunning = false
  isPaused,         \* let isPaused = false
  timers,           \* the browser's active timers: the intervals set and not
                    \* cleared, the timeouts set and neither cleared nor fired
  pending,          \* Start clicks whose promise chain has not settled yet
  cueCount,         \* history: playSample calls since the current step was entered
  cueAt,            \* history: remaining at the last playSample call
  enteredAt,        \* history: remaining when the current step was entered
  interrupted,      \* history: the run was paused or stopped since its start
  played,           \* history: the last handler called playSample
  event,            \* history: the last handler that ran
  clock,            \* clock.textContent
  activityEl,       \* activityEl.textContent
  intervalEl,       \* intervalEl.textContent
  elapsedEl,        \* elapsedEl.textContent
  remainingEl,      \* remainingEl.textContent
  snapTotal,        \* history: totalRemaining of the last updateUI
  snapped,          \* history: the last handler completed an updateUI
  completions,      \* history: finish calls since the last start
  pStage,           \* parser/flattener harness: "off", "text", "plan", "done"
  pText,            \* parser harness: the input text
  pPlan,            \* parser/flattener harness: the plan
  pOut              \* flattener harness: the timeline built from pPlan

engineVars ==
  << timeline, index, remaining, elapsed, intervalId, sampleTimeoutId, isRunning,
     isPaused, timers, cueCount, cueAt, enteredAt, interrupted, played, event,
     clock, activityEl, intervalEl, elapsedEl, remainingEl, snapTotal, snapped,
     completions >>

pureVars == << pStage, pText, pPlan, pOut >>

vars == << engineVars, pending, pureVars >>

\* the engine's state as one value, so that a handler is a function of it
State ==
  [timeline |-> timeline, index |-> index, remaining |-> remaining,
   elapsed |-> elapsed, intervalId |-> intervalId,
   sampleTimeoutId |-> sampleTimeoutId, isRunning |-> isRunning,
   isPaused |-> isPaused, timers |-> timers, cueCount |-> cueCount,
   cueAt |-> cueAt, enteredAt |-> enteredAt, interrupted |-> interrupted,
   played |-> played, event |-> event, clock |-> clock,
   activityEl |-> activityEl, intervalEl |-> intervalEl, elapsedEl |-> elapsedEl,
   remainingEl |-> remainingEl, snapTotal |-> snapTotal, snapped |-> snapped,
   completions |-> completions]

\* the state handler e starts from
Begin(e) == [State EXCEPT !.played = FALSE, !.snapped = FALSE, !.event = e]

\* the state a handler leaves
Commit(s) ==
  \E after \in {s} :
    /\ timeline' = after.timeline
    /\ index' = after.index
    /\ remaining' = after.remaining
    /\ elapsed' = after.elapsed
    /\ intervalId' = after.intervalId
    /\ sampleTimeoutId' = after.sampleTimeoutId
    /\ isRunning' = after.isRunning
    /\ isPaused' = after.isPaused
    /\ timers' = after.timers
    /\ cueCount' = after.cueCount
    /\ cueAt' = after.cueAt
    /\ enteredAt' = after.enteredAt
    /\ interrupted' = after.interrupted
    /\ played' = after.played
    /\ event' = after.event
    /\ clock' = after.clock
    /\ activityEl' = after.activityEl
    /\ intervalEl' = after.intervalEl
    /\ elapsedEl' = after.elapsedEl
    /\ remainingEl' = after.remainingEl
    /\ snapTotal' = after.snapTotal
    /\ snapped' = after.snapped
    /\ completions' = after.completions

\* ------------------------------------------------------------------------
\* Browser timers
\* ------------------------------------------------------------------------
\* a handle the browser has not handed out among the live timers and the
\* handles still held (the browser never reuses a live handle)
NewId(T, held) ==
  CHOOSE n \in 1..(Cardinality(T) + Cardinality(held) + 1) :
    /\ n \notin {t.id : t \in T} \cup held
    /\ \A m \in 1..(n - 1) : m \in {t.id : t \in T} \cup held

\* clearInterval(id) / clearTimeout(id): a null or stale id clears nothing
ClearTimer(T, id) == {t \in T : t.id # id}

\* setInterval(tick, 1000): due in one second; first = not fired yet
SetInterval(T, id) == T \cup {[id |-> id, kind |-> "interval", due |-> 1, first |-> TRUE]}

\* setTimeout(callback, delay * 1000)
SetTimeout(T, id, delay) ==
  T \cup {[id |-> id, kind |-> "timeout", due |-> delay, first |-> TRUE]}

\* ------------------------------------------------------------------------
\* Numbers
\* ------------------------------------------------------------------------
\* Math.max(0, d - k); undefined - k is NaN and Math.max(0, NaN) is NaN
MaxZeroMinus(d, k) == IF d = Undefined THEN NaN ELSE IF d - k > 0 THEN d - k ELSE 0

\* x <= 0, false for NaN
LeqZero(x) == x # NaN /\ x <= 0

\* x > 3, false for NaN
GtThree(x) == x # NaN /\ x > 3

\* x--, NaN stays NaN
Decrement(x) == IF x = NaN THEN NaN ELSE x - 1

\* x + y of the reduce in updateUI; NaN when an operand is no number
Plus(x, y) == IF x \in {NaN, Undefined} \/ y \in {NaN, Undefined} THEN NaN ELSE x + y

\* x - y; NaN when an operand is no number
Minus(x, y) == IF x \in {NaN, Undefined} \/ y \in {NaN, Undefined} THEN NaN ELSE x - y

\* ------------------------------------------------------------------------
\* UI updates
\* ------------------------------------------------------------------------
\* Number.prototype.toString of an integer
RECURSIVE NumStr(_)
NumStr(n) ==
  IF n < 0 THEN << "-" >> \o NumStr(0 - n)
  ELSE IF n < 10 THEN << Digits[n + 1] >>
  ELSE NumStr(n \div 10) \o << Digits[(n % 10) + 1] >>

\* padStart(2, "0")
PadStart2(str) == IF Len(str) < 2 THEN << "0" >> \o str ELSE str

\* sec % 60, with the sign of sec
Rem60(sec) == IF sec >= 0 THEN sec % 60 ELSE 0 - ((0 - sec) % 60)

format(sec) ==
  IF sec = NaN THEN << "N", "a", "N", ":", "N", "a", "N" >>
  ELSE NumStr(sec \div 60) \o << ":" >> \o PadStart2(NumStr(Rem60(sec)))

\* timeline.slice(from).reduce((s, a) => s + a.duration, 0), from 0-based
RECURSIVE SumDurations(_, _)
SumDurations(tl, from) ==
  IF from >= Len(tl) THEN 0
  ELSE Plus(SumDurations(SubSeq(tl, 1, Len(tl) - 1), from), tl[Len(tl)].duration)

\* updateUI: the clock is written first; reading a property of
\* timeline[index] throws when there is no such step, and the rest is skipped
updateUI(s) ==
  LET s1 == [s EXCEPT !.clock = format(s.remaining)]
  IN  IF s.index >= Len(s.timeline) THEN s1
      ELSE LET cur   == s.timeline[s.index + 1]
               total == Minus(SumDurations(s.timeline, s.index),
                              Minus(cur.duration, s.remaining))
           IN  [s1 EXCEPT
                  !.activityEl = cur.name,
                  !.intervalEl =
                    IF cur.interval \notin {Undefined, 0}
                    THEN NumStr(cur.interval) \o << " ", "/", " " >>
                           \o NumStr(cur.intervalTotal)
                    ELSE <<>>,
                  !.elapsedEl = format(s.elapsed),
                  !.remainingEl = format(total),
                  !.snapTotal = total,
                  !.snapped = TRUE]

\* ------------------------------------------------------------------------
\* The workouts typed into the input box
\* ------------------------------------------------------------------------
\* ""
InEmpty == <<>>

\* "5s a\n4s"
InTwo == << "5", "s", " ", "a", "\n", "4", "s" >>

\* "2x(4s a,0s)"
InSet == << "2", "x", "(", "4", "s", " ", "a", ",", "0", "s", ")" >>

\* "go"
InBad == << "g", "o" >>

Inputs == {InEmpty, InTwo, InSet, InBad}

\* flattenWorkout(parseWorkout(input.value)) for each of them
TimelineOf == [text \in Inputs |-> flattenWorkout(parseWorkout(text))]

\* ------------------------------------------------------------------------
\* Timer logic
\* ------------------------------------------------------------------------
\* the cue: playSample() (the audio itself is outside the engine)
playSample(s) ==
  [s EXCEPT !.cueCount = IF @ < MaxCues THEN @ + 1 ELSE @,
            !.cueAt = s.remaining,
            !.played = TRUE]

\* if (sampleTimeoutId) { clearTimeout(sampleTimeoutId); sampleTimeoutId = null; }
ClearSample(s) ==
  IF s.sampleTimeoutId # Null
  THEN [s EXCEPT !.timers = ClearTimer(@, s.sampleTimeoutId), !.sampleTimeoutId = Null]
  ELSE s

\* startActivity without the test for the last step
startActivityCueOnLast(s, subtractOne) ==
  LET s1 == ClearSample([s EXCEPT !.timers = ClearTimer(@, s.intervalId)])
      r  == MaxZeroMinus(s1.timeline[s1.index + 1].duration, IF subtractOne THEN 1 ELSE 0)
      i  == NewId(s1.timers, {s1.sampleTimeoutId} \ {Null})
      s2 == [updateUI([s1 EXCEPT !.remaining = r]) EXCEPT
                       !.timers = SetInterval(@, i),
                       !.intervalId = i,
                       !.enteredAt = r,
                       !.cueCount = 0,
                       !.cueAt = Undefined]
  IN  IF GtThree(r)
      THEN LET c == NewId(s2.timers, {s2.intervalId})
           IN  [s2 EXCEPT !.timers = SetTimeout(@, c, r - 3), !.sampleTimeoutId = c]
      ELSE IF r = 3 THEN playSample(s2)
      ELSE s2

startActivity(s, subtractOne) ==
  LET s1 == ClearSample([s EXCEPT !.timers = ClearTimer(@, s.intervalId)])
      r  == MaxZeroMinus(s1.timeline[s1.index + 1].duration, IF subtractOne THEN 1 ELSE 0)
      i  == NewId(s1.timers, {s1.sampleTimeoutId} \ {Null})
      s2 == [updateUI([s1 EXCEPT !.remaining = r]) EXCEPT
                       !.timers = SetInterval(@, i),
                       !.intervalId = i,
                       !.enteredAt = r,
                       !.cueCount = 0,
                       !.cueAt = Undefined]
  IN  IF s2.index < Len(s2.timeline) - 1
      THEN IF GtThree(r)
           THEN LET c == NewId(s2.timers, {s2.intervalId})
                IN  [s2 EXCEPT !.timers = SetTimeout(@, c, r - 3), !.sampleTimeoutId = c]
           ELSE IF r = 3 THEN playSample(s2)
           ELSE s2
      ELSE s2

finish(s) ==
  [ClearSample([s EXCEPT !.timers = ClearTimer(@, s.intervalId)]) EXCEPT
     !.clock = << "\\u1F389" >>,   \* the party-popper emoji
     !.activityEl = << "d", "o", "n", "e" >>,
     !.isRunning = FALSE,
     !.completions = @ + 1]

\* next that starts the following step at its full duration
nextFullDuration(s) ==
  LET s1 == [s EXCEPT !.index = @ + 1]
  IN  IF s1.index >= Len(s1.timeline) THEN finish(s1) ELSE startActivity(s1, FALSE)

next(s) ==
  LET s1 == [s EXCEPT !.index = @ + 1]
  IN  IF s1.index >= Len(s1.timeline) THEN finish(s1) ELSE startActivity(s1, TRUE)

\* tick that counts the second in which it advances
tickCountsAdvance(s) ==
  IF LeqZero(s.remaining) THEN next([s EXCEPT !.elapsed = @ + 1])
  ELSE updateUI([s EXCEPT !.remaining = Decrement(@), !.elapsed = @ + 1])

\* when updateUI throws, what tick has written before it stays and
\* pulseClock (cosmetic) is skipped
tick(s) ==
  IF LeqZero(s.remaining) THEN next(s)
  ELSE updateUI([s EXCEPT !.remaining = Decrement(@), !.elapsed = @ + 1])

start(s, text) ==
  LET s1 == [s EXCEPT !.timeline = TimelineOf[text]]
  IN  IF Len(s1.timeline) = 0 THEN s1
      ELSE startActivity([s1 EXCEPT !.index = 0,
                                    !.elapsed = 0,
                                    !.isRunning = TRUE,
                                    !.isPaused = FALSE,
                                    !.interrupted = FALSE,
                                    !.completions = 0],
                         FALSE)

\* pause that counts the second it interrupts
pauseCountsSecond(s) ==
  [ClearSample([s EXCEPT !.timers = ClearTimer(@, s.intervalId)]) EXCEPT
     !.isPaused = TRUE,
     !.isRunning = FALSE,
     !.elapsed = @ + 1,
     !.interrupted = TRUE]

\* pause that leaves the tick running
pauseKeepsInterval(s) ==
  [ClearSample(s) EXCEPT !.isPaused = TRUE, !.isRunning = FALSE, !.interrupted = TRUE]

pause(s) ==
  [ClearSample([s EXCEPT !.timers = ClearTimer(@, s.intervalId)]) EXCEPT
     !.isPaused = TRUE,
     !.isRunning = FALSE,
     !.interrupted = TRUE]

resume(s) ==
  LET i  == NewId(s.timers, {s.sampleTimeoutId} \ {Null})
      s1 == [s EXCEPT !.isPaused = FALSE,
                      !.isRunning = TRUE,
                      !.timers = SetInterval(@, i),
                      !.intervalId = i]
  IN  IF s1.index < Len(s1.timeline) - 1
      THEN LET s2 == ClearSample(s1)
           IN  IF GtThree(s2.remaining)
               THEN LET c == NewId(s2.timers, {s2.intervalId})
                    IN  [s2 EXCEPT !.timers = SetTimeout(@, c, s2.remaining - 3),
                                   !.sampleTimeoutId = c]
               ELSE IF s2.remaining = 3 THEN playSample(s2)
               ELSE s2
      ELSE s1

\* stop that also resets the elapsed counter
stopResetsElapsed(s) ==
  [ClearSample([s EXCEPT !.timers = ClearTimer(@, s.intervalId)]) EXCEPT
     !.isRunning = FALSE,
     !.isPaused = FALSE,
     !.elapsed = 0,
     !.clock = << "0", "0", ":", "0", "0" >>,
     !.activityEl = << "r", "e", "a", "d", "y" >>,
     !.intervalEl = <<>>,
     !.elapsedEl = << "0", ":", "0", "0" >>,
     !.remainingEl = << "0", ":", "0", "0" >>,
     !.interrupted = TRUE]

\* stop that leaves isPaused as it is
stopKeepsPaused(s) ==
  [ClearSample([s EXCEPT !.timers = ClearTimer(@, s.intervalId)]) EXCEPT
     !.isRunning = FALSE,
     !.clock = << "0", "0", ":", "0", "0" >>,
     !.activityEl = << "r", "e", "a", "d", "y" >>,
     !.intervalEl = <<>>,
     !.elapsedEl = << "0", ":", "0", "0" >>,
     !.remainingEl = << "0", ":", "0", "0" >>,
     !.interrupted = TRUE]

\* stop that leaves the cue timer pending
stopKeepsCue(s) ==
  [s EXCEPT !.timers = ClearTimer(@, s.intervalId),
            !.isRunning = FALSE,
            !.isPaused = FALSE,
            !.clock = << "0", "0", ":", "0", "0" >>,
            !.activityEl = << "r", "e", "a", "d", "y" >>,
            !.intervalEl = <<>>,
            !.elapsedEl = << "0", ":", "0", "0" >>,
            !.remainingEl = << "0", ":", "0", "0" >>,
            !.interrupted = TRUE]

stop(s) ==
  [ClearSample([s EXCEPT !.timers = ClearTimer(@, s.intervalId)]) EXCEPT
     !.isRunning = FALSE,
     !.isPaused = FALSE,
     !.clock = << "0", "0", ":", "0", "0" >>,
     !.activityEl = << "r", "e", "a", "d", "y" >>,
     !.intervalEl = <<>>,
     !.elapsedEl = << "0", ":", "0", "0" >>,
     !.remainingEl = << "0", ":", "0", "0" >>,
     !.interrupted = TRUE]

\* ------------------------------------------------------------------------
\* Events
\* ------------------------------------------------------------------------
\* startBtn.onclick: the dispatch waits for the promise chain
StartClick ==
  /\ pending < MaxPending
  /\ pending' = pending + 1
  /\ Commit([State EXCEPT !.event = "click"])
  /\ UNCHANGED pureVars

\* the timeline input.value yields is empty
YieldsEmpty(text) == Len(TimelineOf[text]) = 0

\* the finally callback of startBtn.onclick: if (isPaused) resume(); else
\* start(); input.value is read by start, now
StartDispatch ==
  /\ pending > 0
  /\ pending' = pending - 1
  /\ \E text \in Inputs :
       Commit(IF isPaused THEN resume(Begin("resume"))
              ELSE start(Begin(IF YieldsEmpty(text) THEN "startEmpty" ELSE "start"), text))
  /\ UNCHANGED pureVars

\* a Pause button that pauses whatever the run mode
PauseClickUnguarded ==
  /\ Commit(pause(Begin("pause")))
  /\ UNCHANGED << pending, pureVars >>

\* pauseBtn.onclick = () => isRunning && pause()
PauseClick ==
  /\ Commit(IF isRunning THEN pause(Begin("pause")) ELSE Begin("pause"))
  /\ UNCHANGED << pending, pureVars >>

\* stopBtn.onclick = stop
StopClick ==
  /\ Commit(stop(Begin("stop")))
  /\ UNCHANGED << pending, pureVars >>

\* one second passes; a timer that is due runs before time goes on
Advance ==
  /\ timers # {}
  /\ \A t \in timers : t.due > 0
  /\ Commit([Begin("second") EXCEPT !.timers = {[t EXCEPT !.due = @ - 1] : t \in timers}])
  /\ UNCHANGED << pending, pureVars >>

\* a due interval runs tick and is due again a second later (unless tick
\* cleared it)
TickFire ==
  /\ elapsed < MaxElapsed
  /\ \E t \in timers :
       /\ t.kind = "interval"
       /\ t.due = 0
       /\ Commit(tick([Begin("tick") EXCEPT !.timers =
                         (@ \ {t}) \cup {[t EXCEPT !.due = 1, !.first = FALSE]}]))
  /\ UNCHANGED << pending, pureVars >>

\* the callback of the cue timeout: playSample(); sampleTimeoutId = null.
\* Timers due at the same instant run in no fixed order, except that a
\* timeout waits for a timer set before it with a delay not longer than its
\* own: the interval set just before it, at that interval's first firing.
CueFire ==
  /\ \E t \in timers :
       /\ t.kind = "timeout"
       /\ t.due = 0
       /\ ~\E u \in timers : u.kind = "interval" /\ u.due = 0 /\ u.first
       /\ Commit([playSample([Begin("cue") EXCEPT !.timers = @ \ {t}]) EXCEPT
                    !.sampleTimeoutId = Null])
  /\ UNCHANGED << pending, pureVars >>

Init ==
  /\ timeline = <<>>
  /\ index = 0
  /\ remaining = 0
  /\ elapsed = 0
  /\ intervalId = Null
  /\ sampleTimeoutId = Null
  /\ isRunning = FALSE
  /\ isPaused = FALSE
  /\ timers = {}
  /\ pending = 0
  /\ cueCount = 0
  /\ cueAt = Undefined
  /\ enteredAt = 0
  /\ interrupted = FALSE
  /\ played = FALSE
  /\ event = "load"
  /\ clock = <<>>
  /\ activityEl = <<>>
  /\ intervalEl = <<>>
  /\ elapsedEl = <<>>
  /\ remainingEl = <<>>
  /\ snapTotal = 0
  /\ snapped = FALSE
  /\ completions = 0
  /\ pStage = "off"
  /\ pText = <<>>
  /\ pPlan = <<>>
  /\ pOut = <<>>

Next ==
  \/ StartClick
  \/ StartDispatch
  \/ PauseClick
  \/ StopClick
  \/ Advance
  \/ TickFire
  \/ CueFire

Spec == Init /\ [][Next]_vars

\* Start clicks until a run has begun; none during or after it
FirstClicks ==
  /\ event \in {"load", "click", "startEmpty"}
  /\ StartClick

\* runs that nobody pauses or stops
RunNext ==
  \/ FirstClicks
  \/ StartDispatch
  \/ Advance
  \/ TickFire
  \/ CueFire

\* what happens without the user: time goes on, a due timer fires, the
\* promise chain of a Start click settles
Progress ==
  \/ Advance
  \/ TickFire
  \/ CueFire
  \/ StartDispatch

RunSpec ==
  /\ Init
  /\ [][RunNext]_vars
  /\ WF_vars(Progress)

\* ------------------------------------------------------------------------
\* The parser and the flattener on their own
\* ------------------------------------------------------------------------
\* pieces an input text is made of
Fragments ==
  { << "2", "x", "(" >>, << "1", "s", " ", "a", "," >>, << "3", "s" >>, << ")" >>,
    << "\n" >>, << "g", "o" >>, << " " >>, << "1", "M" >> }

RECURSIVE Concat(_)
Concat(ss) == IF ss = <<>> THEN <<>> ELSE Head(ss) \o Concat(Tail(ss))

Texts == { Concat(fs) : fs \in UNION { [1..n -> Fragments] : n \in 0..MaxFrags } }

\* the activities a Set of an input plan repeats
Items == { [name |-> << "a" >>, duration |-> 1], [name |-> <<>>, duration |-> 2] }

SetNode(r, steps) ==
  [type |-> "set", name |-> UndefinedName, duration |-> Undefined,
   repeat |-> r, steps |-> steps]

\* the nodes of an input plan: a parsed activity, the node of a line that
\* matched nothing, Sets of 1..MaxRepeat repetitions of 1..MaxSteps items, a
\* Set repeated 0 times and a Set all of whose items were dropped
Nodes ==
  { [type |-> "activity", name |-> << "w" >>, duration |-> 3,
     repeat |-> Undefined, steps |-> <<>>],
    [type |-> "activity", name |-> UndefinedName, duration |-> Undefined,
     repeat |-> Undefined, steps |-> <<>>],
    SetNode(0, << [name |-> << "a" >>, duration |-> 1] >>),
    SetNode(2, <<>>) }
  \cup { SetNode(r, st) : r \in 1..MaxRepeat,
                          st \in UNION { [1..n -> Items] : n \in 1..MaxSteps } }

Plans == UNION { [1..n -> Nodes] : n \in 0..MaxPlanLen }

PureInit ==
  /\ timeline = <<>>
  /\ index = 0
  /\ remaining = 0
  /\ elapsed = 0
  /\ intervalId = Null
  /\ sampleTimeoutId = Null
  /\ isRunning = FALSE
  /\ isPaused = FALSE
  /\ timers = {}
  /\ pending = 0
  /\ cueCount = 0
  /\ cueAt = Undefined
  /\ enteredAt = 0
  /\ interrupted = FALSE
  /\ played = FALSE
  /\ event = "load"
  /\ clock = <<>>
  /\ activityEl = <<>>
  /\ intervalEl = <<>>
  /\ elapsedEl = <<>>
  /\ remainingEl = <<>>
  /\ snapTotal = 0
  /\ snapped = FALSE
  /\ completions = 0
  /\ pOut = <<>>
  /\ \/ pStage = "text" /\ pText \in Texts /\ pPlan = <<>>
     \/ pStage = "plan" /\ pText = <<>> /\ pPlan \in Plans

\* parseWorkout(input.value)
ParseText ==
  /\ pStage = "text"
  /\ pPlan' = parseWorkout(pText)
  /\ pStage' = "parsed"
  /\ UNCHANGED << pText, pOut, engineVars, pending >>

\* flattenWorkout of what parseWorkout returned
FlattenParsed ==
  /\ pStage = "parsed"
  /\ pOut' = flattenWorkout(pPlan)
  /\ pStage' = "timeline"
  /\ UNCHANGED << pText, pPlan, engineVars, pending >>

\* flattenWorkout of a plan
FlattenPlan ==
  /\ pStage = "plan"
  /\ pOut' = flattenWorkout(pPlan)
  /\ pStage' = "flat"
  /\ UNCHANGED << pText, pPlan, engineVars, pending >>

PureNext ==
  \/ ParseText
  \/ FlattenParsed
  \/ FlattenPlan

PureSpec == PureInit /\ [][PureNext]_vars

\* ------------------------------------------------------------------------
\* Properties
\* ------------------------------------------------------------------------
Intervals == {t \in timers : t.kind = "interval"}

Timeouts == {t \in timers : t.kind = "timeout"}

\* currentIndex is the last index of the timeline
OnLastStep == Len(timeline) > 0 /\ index = Len(timeline) - 1

\* currentIndex is an index of the timeline, and not the last one
OnInnerStep == 0 <= index /\ index < Len(timeline) - 1

\* C1: in every reachable state, deferred Start dispatches included, at most
\* one recurring tick timer and at most one pending cue timer exist.
C1_AtMostOneTimerOfEachKind ==
  /\ Cardinality(Intervals) <= 1
  /\ Cardinality(Timeouts) <= 1

\* a deferred Start click has just resumed a paused run, another click is
\* still waiting, and both timers are set
C1_Witness ==
  /\ event = "resume"
  /\ pending > 0
  /\ Intervals # {}
  /\ Timeouts # {}

\* C2: the pre-end cue is fired at most once for a step, whatever pauses and
\* resumes happen during the step.
C2_CueAtMostOncePerStep == cueCount <= 1

\* C3: in a run with no pause or stop, on a step that is not the last: a
\* step entered with remaining >= 3 gets exactly one cue, fired when
\* remaining equals 3 (so the cue has fired once remaining is below 3); a
\* step entered with remaining < 3 gets none.
C3_CueLawUninterrupted ==
  (~interrupted /\ OnInnerStep /\ enteredAt # NaN) =>
    /\ cueCount <= 1
    /\ cueCount = 1 => cueAt = 3
    /\ enteredAt < 3 => cueCount = 0
    /\ (enteredAt >= 3 /\ remaining < 3) => cueCount = 1

\* C4: while currentIndex is the last index of the timeline no cue is fired
\* and none is scheduled.
C4_NoCueOnLastStep ==
  OnLastStep =>
    /\ ~played
    /\ cueCount = 0
    /\ Timeouts = {}
    /\ sampleTimeoutId = Null

\* the last step of a timeline of several steps, resumed after a pause with
\* exactly 3 seconds remaining
C4_Witness ==
  /\ OnLastStep
  /\ Len(timeline) > 1
  /\ isRunning
  /\ event = "resume"
  /\ remaining = 3

\* C5: the tick and the cue timer are active only while the engine is
\* Running: after pause, stop or finish no timer is left that could fire.
C5_TimersOnlyWhileRunning == ~isRunning => timers = {}

\* a pause that cancelled a cue still to come
C5_Witness ==
  /\ event = "pause"
  /\ isPaused
  /\ OnInnerStep
  /\ remaining > 3
  /\ cueCount = 0
  /\ timers = {}

\* C6: start on input that yields an empty timeline changes nothing: the
\* timeline, currentIndex, remainingSeconds, elapsedSeconds, the run mode
\* and the timers are as before.
C6_EmptyStartIsNoOp ==
  [][event' = "startEmpty" =>
       UNCHANGED << timeline, index, remaining, elapsed, isRunning, isPaused, timers >>]_vars

\* C7: while the engine is Running or Paused, 0 <= currentIndex < length(timeline).
C7_IndexValid == (isRunning \/ isPaused) => (0 <= index /\ index < Len(timeline))

\* C8: while the engine is Running or Paused, remainingSeconds is an integer
\* with 0 <= remainingSeconds <= timeline[currentIndex].durationSeconds.
C8_RemainingInRange ==
  (isRunning \/ isPaused) =>
    /\ 0 <= index /\ index < Len(timeline)
    /\ 0 <= remaining
    /\ remaining <= timeline[index + 1].duration

\* the non-blank lines of a text, trimmed
LinesOf(text) == SelectSeq(TrimAll(Split(text, "\n")), NonEmpty)

\* the line matches the set pattern or the activity-duration pattern
LineMatches(line) == SetMatch(line) # 0 \/ ActivityMatch(line) # 0

MatchingLines(text) ==
  {i \in 1..Len(LinesOf(text)) : LineMatches(LinesOf(text)[i])}

\* C9: a non-blank line that matches neither pattern contributes no node to
\* the plan (the plan has one node per matching line) and no step to the
\* timeline; a text with no matching line yields an empty timeline.
C9_UnparseableLineDropped ==
  /\ pStage \in {"parsed", "timeline"} =>
       Len(pPlan) = Cardinality(MatchingLines(pText))
  /\ (pStage = "timeline" /\ MatchingLines(pText) = {}) => pOut = <<>>

\* the number of steps a node expands to
NodeLen(node) == IF node.type = "activity" THEN 1 ELSE node.repeat * Len(node.steps)

RECURSIVE LenBefore(_, _)
LenBefore(plan, i) == IF i <= 1 THEN 0 ELSE LenBefore(plan, i - 1) + NodeLen(plan[i - 1])

\* C10: flatten maps each Activity to one step without interval annotation
\* and each Set (R, [s1..sk]) to R consecutive groups s1..sk, group r
\* annotated interval = r, intervalTotal = R, in plan order; the length is
\* the number of Activities plus the sum over Sets of R * k.
C10_FlattenLaw ==
  pStage \in {"flat", "timeline"} =>
    /\ Len(pOut) = LenBefore(pPlan, Len(pPlan) + 1)
    /\ \A i \in 1..Len(pPlan) :
         LET node == pPlan[i]
             off  == LenBefore(pPlan, i)
         IN  IF node.type = "activity"
             THEN pOut[off + 1] =
                    [name |-> node.name, duration |-> node.duration,
                     interval |-> Undefined, intervalTotal |-> Undefined]
             ELSE \A r \in 1..node.repeat : \A k \in 1..Len(node.steps) :
                    pOut[off + (r - 1) * Len(node.steps) + k] =
                      [name |-> node.steps[k].name, duration |-> node.steps[k].duration,
                       interval |-> r, intervalTotal |-> node.repeat]

\* an Activity followed by a Set of two repetitions of two different steps,
\* flattened
C10_Witness ==
  /\ pStage = "flat"
  /\ Len(pPlan) = 2
  /\ pPlan[1].type = "activity"
  /\ pPlan[2].type = "set"
  /\ pPlan[2].repeat = 2
  /\ Len(pPlan[2].steps) = 2
  /\ pPlan[2].steps[1] # pPlan[2].steps[2]
  /\ Len(pOut) = 5

\* the values that pause and resume must carry across the interruption
position == << timeline, index, remaining, elapsed >>

\* C11: a tick that advances to a following step of duration d > 0 leaves
\* remaining = d - 1 on show, never d; the first step, entered by start,
\* begins at its full duration.
C11_FollowingStepsStartOneShort ==
  [][ /\ (event' = "tick" /\ index' = index + 1 /\ index' < Len(timeline')) =>
           LET d == timeline'[index' + 1].duration
           IN  d > 0 => /\ remaining' = d - 1
                        /\ clock' = format(d - 1)
      /\ (event' = "start" /\ timeline'[1].duration > 0) =>
           /\ index' = 0
           /\ remaining' = timeline'[1].duration
           /\ clock' = format(timeline'[1].duration) ]_vars

\* a tick has just advanced to the second step, of 4 seconds, which shows 3
C11_Witness ==
  /\ event = "tick"
  /\ isRunning
  /\ index = 1
  /\ timeline[2].duration = 4
  /\ remaining = 3
  /\ enteredAt = 3

\* C12: pause leaves timeline, currentIndex, remaining and elapsed as they
\* are and the engine Paused; the resume that follows a pause leaves the
\* engine Running with the same index, remaining and elapsed.
C12_PauseResumeKeepPosition ==
  [][ /\ (event' = "pause" /\ isRunning) =>
           /\ isPaused' /\ ~isRunning'
           /\ UNCHANGED position
      /\ (event' = "resume" /\ isPaused) =>
           /\ isRunning' /\ ~isPaused'
           /\ UNCHANGED position ]_vars

\* a run resumed in the middle of a step, after some seconds have gone by
C12_Witness ==
  /\ event = "resume"
  /\ isRunning
  /\ elapsed > 0
  /\ remaining > 0
  /\ Intervals # {}

\* C13: a pause request while the engine is not Running changes nothing;
\* resume is performed only when the engine is Paused.
C13_PauseOnlyRunningResumeOnlyPaused ==
  [][ /\ (event' = "pause" /\ ~isRunning) =>
           UNCHANGED << position, isRunning, isPaused, timers, intervalId,
                        sampleTimeoutId, clock, activityEl, elapsedEl >>
      /\ (event' = "resume") => isPaused ]_vars

\* the Pause button pressed after the run has finished
C13_Witness ==
  /\ event = "pause"
  /\ ~isRunning /\ ~isPaused
  /\ completions = 1
  /\ index = Len(timeline)

\* the run is over: every step has been left and no run mode is set
Finished == ~isRunning /\ ~isPaused /\ Len(timeline) > 0 /\ index = Len(timeline)

C15_ElapsedMonotonic ==
  [][ /\ elapsed' >= elapsed \/ event' = "start"
      /\ event' = "start" => elapsed' = 0 ]_vars

\* a run stopped after some seconds keeps its elapsed count
C15_Witness ==
  /\ event = "stop"
  /\ ~isRunning
  /\ elapsed > 0

\* C16: a start on a non-empty timeline, from whatever state, leaves the
\* engine Running on step 0 with elapsed 0, remaining equal to the full
\* duration of the first step, and no timer of an earlier run.
C16_StartPostcondition ==
  [][ event' = "start" =>
        /\ isRunning' /\ ~isPaused'
        /\ index' = 0
        /\ elapsed' = 0
        /\ remaining' = timeline'[1].duration
        /\ \A t \in timers' :
             /\ t.id \in {intervalId', sampleTimeoutId'}
             /\ t.kind = "interval" => (t.first /\ t.due = 1)
             /\ t.kind = "timeout" => t.due = remaining' - 3 ]_vars

\* C17: stop, from whatever state, leaves the engine Idle with no timer and
\* the reset values on show (clock 00:00, activity "ready", elapsed 0:00);
\* the Start click that follows starts a run, it does not resume one.
C17_StopResets ==
  [][ /\ event' = "stop" =>
           /\ ~isRunning' /\ ~isPaused'
           /\ timers' = {}
           /\ clock' = << "0", "0", ":", "0", "0" >>
           /\ activityEl' = << "r", "e", "a", "d", "y" >>
           /\ elapsedEl' = << "0", ":", "0", "0" >>
      /\ (event = "stop" /\ pending > 0 /\ pending' < pending) =>
           event' \in {"start", "startEmpty"} ]_vars

\* a run stopped on its second step, with seconds still to go
C17_Witness ==
  /\ event = "stop"
  /\ index = 1
  /\ remaining > 0
  /\ timers = {}
  /\ clock = << "0", "0", ":", "0", "0" >>

\* C18: a tick does exactly one of two things: with remaining <= 0 it
\* advances to the next step or finishes, and elapsed stays; otherwise
\* remaining goes down by 1, elapsed up by 1 and the index stays.
C18_TickCases ==
  [][ event' = "tick" =>
        IF remaining # NaN /\ remaining <= 0
        THEN /\ elapsed' = elapsed
             /\ index' = index + 1
             /\ IF index + 1 >= Len(timeline)
                THEN ~isRunning' /\ completions' = completions + 1
                ELSE isRunning' /\ completions' = completions
        ELSE /\ remaining' = Minus(remaining, 1)
             /\ elapsed' = elapsed + 1
             /\ index' = index
             /\ isRunning' /\ completions' = completions ]_vars

\* the tick that leaves the first step after its five seconds: the second
\* step is entered and elapsed still is 5
C18_Witness ==
  /\ event = "tick"
  /\ index = 1
  /\ elapsed = 5
  /\ remaining = enteredAt
  /\ completions = 0

\* C19: every cue is played while the engine is Running on a step that is
\* not the last, with remaining = 3.
C19_CueOnlyAtThree ==
  played => (isRunning /\ OnInnerStep /\ cueAt = 3)

\* every step of the timeline has a duration
AllDurationsDefined == \A i \in 1..Len(timeline) : timeline[i].duration # Undefined

\* C20: whenever the display is refreshed, elapsed plus the total remaining
\* over the timeline is the sum of all durations; at the finish elapsed is
\* that sum.
C20_ElapsedPlusRemainingIsTotal ==
  AllDurationsDefined =>
    /\ snapped => Plus(elapsed, snapTotal) = SumDurations(timeline, 0)
    /\ (Finished /\ completions = 1) => elapsed = SumDurations(timeline, 0)

====
